---- MODULE Spec2Model ----
(***************************************************************************)
(* Task assistant backend: the agent pipeline (classify -> extract ->      *)
(* advise -> save | converse), the task tools over the Task collection and *)
(* the HTTP routes that call them.                                         *)
(*                                                                         *)
(* Time is counted in hours since the epoch; a calendar day is 24 hours.   *)
(* A string is kept as [pad, txt]: txt is its content without surrounding  *)
(* whitespace and pad the number of whitespace characters around it, so    *)
(* that trim() and length are computed and not assumed.                    *)
(***************************************************************************)
EXTENDS Integers, Sequences, FiniteSets, TLC

VARIABLES
    tasks,      \* the Task collection: a set of stored documents
    nextId,     \* the next _id the driver hands out
    now,        \* the wall clock, in hours since the epoch (UTC)
    tz,         \* the server's local time zone offset, in hours
    inv,        \* per chat request: where agent.process stands, and what it holds
    http        \* the response of the last /tasks route that ran

vars == <<tasks, nextId, now, tz, inv, http>>

(***************************************************************************)
(* Bounds of the model.                                                    *)
(***************************************************************************)
MaxTasks == 2               \* documents ever inserted

Procs == {"r1", "r2"}      \* chat requests in flight at once

(***************************************************************************)
(* JavaScript values.                                                      *)
(***************************************************************************)
Undef == [t |-> "undefined"]
Null == [t |-> "null"]
Bool(b) == [t |-> "boolean", v |-> b]
Num(n) == [t |-> "number", v |-> n]
Str(pad, txt) == [t |-> "string", pad |-> pad, txt |-> txt]
\* the text "YYYY-MM-DD" of calendar day d (days since the epoch)
IsoDay(d) == [t |-> "string", pad |-> 0, txt |-> "YYYY-MM-DD", day |-> d]
DateAt(h) == [t |-> "date", valid |-> TRUE, time |-> h]
InvalidDate == [t |-> "date", valid |-> FALSE]

IsStr(v) == v.t = "string"
IsIso(v) == IsStr(v) /\ "day" \in DOMAIN v
Length(s) == s.pad + Len(s.txt)
\* String.prototype.trim
Trim(s) == [s EXCEPT !.pad = 0]
\* ToBoolean, on the values the model holds
Truthy(v) ==
    CASE v.t = "undefined" -> FALSE
      [] v.t = "null" -> FALSE
      [] v.t = "boolean" -> v.v
      [] v.t = "number" -> v.v # 0
      [] v.t = "string" -> Length(v) > 0
      [] OTHER -> TRUE
\* new Date(v): a date-only ISO string is midnight UTC of that day
NewDate(v) ==
    CASE v.t = "date" -> v
      [] v.t = "null" -> DateAt(0)
      [] IsIso(v) -> DateAt(v.day * 24)
      [] OTHER -> InvalidDate

(***************************************************************************)
(* The completion service (sendMessage): it throws, or returns the content *)
(* of the first choice.  A content meant as JSON is kept as what           *)
(* JSON.parse makes of it.                                                 *)
(***************************************************************************)
Throws == [kind |-> "error"]
Content(c) == [kind |-> "content", content |-> c]
Malformed == [j |-> "malformed"]
JNull == [j |-> "null"]
JNumber == [j |-> "number"]
JArray == [j |-> "array"]
JObject(fields) == [j |-> "object", fields |-> fields]

\* the field of a parsed value, as property access reads it
Field(value, name) ==
    IF value.j = "object" /\ name \in DOMAIN value.fields
    THEN value.fields[name] ELSE Undef

FallbackAdvice ==
    Str(0, "Good luck with your task! Break it down into smaller steps and tackle them one at a time.")
FallbackGreeting ==
    Str(0, "Hello! I'm your task assistant. I can help you remember things and manage your tasks. Try saying something like 'Remind me to study tomorrow'!")
Apology ==
    Str(0, "I apologize, but I encountered an error processing your request. Please try again.")

MaxTitleLength == 200

RECURSIVE Chars(_)
Chars(n) == IF n = 0 THEN "" ELSE "a" \o Chars(n - 1)
LongestTitle == Chars(MaxTitleLength)
TooLongTitle == Chars(MaxTitleLength + 1)

(***************************************************************************)
(* models/Task.js: the schema's casts, setters, defaults and validators.   *)
(***************************************************************************)
CastError == [t |-> "casterror"]
EmptyStr == Str(0, "")

\* title: String with trim: true
CastTitle(v) == IF IsStr(v) THEN Trim(v) ELSE v
\* date: Date; an Invalid Date or a text that is no date does not cast
CastDate(v) ==
    CASE v.t = "date" -> IF v.valid THEN v ELSE CastError
      [] v.t = "string" -> IF IsIso(v) THEN NewDate(v)
                           ELSE IF Length(v) = 0 THEN Null ELSE CastError
      [] OTHER -> v
\* completed: Boolean
CastBoolean(v) == IF v.t \in {"boolean", "null", "undefined"} THEN v ELSE CastError

\* a title schema without required: true
ValidTitle_notRequired(v) == IsStr(v) /\ Length(v) <= MaxTitleLength

\* required: true and maxLength: 200, after the setters ran
ValidTitle(v) == IsStr(v) /\ Length(v) > 0 /\ Length(v) <= MaxTitleLength
\* required: true, and the cast succeeded
ValidDate(v) == v.t = "date" /\ v.valid
ValidText(v) == v.t \in {"string", "null", "undefined"}
ValidCompleted(v) == v.t \in {"boolean", "null", "undefined"}

\* a || b
OrElse(a, b) == IF Truthy(a) THEN a ELSE b

\* new Task({...}) in saveTask, with the schema's defaults
NewTask(taskInfo, id, at) ==
    [id |-> id,
     title |-> CastTitle(taskInfo.title),
     date |-> CastDate(taskInfo.date),
     notes |-> OrElse(taskInfo.notes, EmptyStr),
     advice |-> OrElse(taskInfo.advice, EmptyStr),
     completed |-> Bool(FALSE),
     createdAt |-> at]

\* document validation, run by save()
ValidateTask(doc) ==
    /\ ValidTitle(doc.title)
    /\ ValidDate(doc.date)
    /\ ValidText(doc.notes)
    /\ ValidText(doc.advice)

(***************************************************************************)
(* agent/tools.js                                                          *)
(***************************************************************************)
Ok(value) == [ok |-> TRUE, value |-> value]
Thrown(message) == [ok |-> FALSE, error |-> message]

\* extractTaskInfo: JSON.parse throws on malformed text; taskInfo.date on
\* null and the assignment to a property of a primitive (module code is
\* strict) throw a TypeError; every throw leaves as one Error.
ExtractTaskInfo(reply) ==
    IF reply.kind = "error" \/ reply.content.j \in {"malformed", "null", "number"}
    THEN Thrown("Failed to extract task information")
    ELSE Ok([title |-> Field(reply.content, "title"),
             date |-> NewDate(Field(reply.content, "date")),
             notes |-> Field(reply.content, "notes")])

\* a generateAdvice whose catch returns nothing useful
GenerateAdvice_noFallback(reply) ==
    IF reply.kind = "error" \/ ~IsStr(reply.content)
    THEN EmptyStr
    ELSE Trim(reply.content)

\* generateAdvice: advice.trim(), or the fallback when the call or trim throws
GenerateAdvice(reply) ==
    IF reply.kind = "error" \/ ~IsStr(reply.content)
    THEN FallbackAdvice
    ELSE Trim(reply.content)

\* saveTask: the document save() stores, or the Error it leaves with
SaveTask(taskInfo, id, at, db) ==
    LET doc == NewTask(taskInfo, id, at) IN
    IF ValidateTask(doc) /\ db = "up"
    THEN Ok(doc)
    ELSE Thrown("Failed to save task to database")

\* Task.findByIdAndUpdate(taskId, updates, {new: true, runValidators: true}):
\* the update is cast by the schema, then validated on the paths it sets
CastUpdate(updates) ==
    [k \in DOMAIN updates |->
        CASE k = "title" -> CastTitle(updates[k])
          [] k = "date" -> CastDate(updates[k])
          [] k = "completed" -> CastBoolean(updates[k])
          [] OTHER -> updates[k]]

ValidUpdate(cast) ==
    \A k \in DOMAIN cast :
        CASE k = "title" -> ValidTitle(cast[k])
          [] k = "date" -> ValidDate(cast[k])
          [] k = "completed" -> ValidCompleted(cast[k])
          [] OTHER -> ValidText(cast[k])

Patched(doc, cast) ==
    [f \in DOMAIN doc |-> IF f \in DOMAIN cast THEN cast[f] ELSE doc[f]]

\* updateTask: the Error('Task not found') of line 135 is thrown inside the
\* try, so the catch of line 140 replaces it like any other failure
UpdateTask(store, taskId, updates, db) ==
    LET cast == CastUpdate(updates)
        found == {d \in store : d.id = taskId}
    IN  IF ~ValidUpdate(cast) \/ db = "down" \/ found = {}
        THEN [ok |-> FALSE, error |-> "Failed to update task", store |-> store]
        ELSE LET task == Patched(CHOOSE d \in found : TRUE, cast)
             IN  [ok |-> TRUE, value |-> task, store |-> (store \ found) \cup {task}]

\* deleteTask: as updateTask, for Task.findByIdAndDelete
DeleteTask(store, taskId, db) ==
    LET found == {d \in store : d.id = taskId}
    IN  IF db = "down" \/ found = {}
        THEN [ok |-> FALSE, error |-> "Failed to delete task", store |-> store]
        ELSE [ok |-> TRUE, value |-> TRUE, store |-> store \ found]

\* filters.k, undefined when the filter has no k
Filter(filters, k) == IF k \in DOMAIN filters THEN filters[k] ELSE Undef

\* a query that tests filters.completed for truth, as it does the dates
Query_truthyCompleted(filters) ==
    [completed |-> IF Truthy(Filter(filters, "completed"))
                   THEN filters.completed ELSE Undef,
     gte |-> IF Truthy(Filter(filters, "dateFrom"))
             THEN NewDate(filters.dateFrom) ELSE Undef,
     lte |-> IF Truthy(Filter(filters, "dateTo"))
             THEN NewDate(filters.dateTo) ELSE Undef]

\* the query getTasks builds from its filters (lines 71-82); a condition
\* that is not set is kept as undefined
Query(filters) ==
    [completed |-> Filter(filters, "completed"),
     gte |-> IF Truthy(Filter(filters, "dateFrom"))
             THEN NewDate(filters.dateFrom) ELSE Undef,
     lte |-> IF Truthy(Filter(filters, "dateTo"))
             THEN NewDate(filters.dateTo) ELSE Undef]

\* the query casts unless a bound is an Invalid Date
QueryCasts(query) ==
    /\ query.gte # Undef => query.gte.valid
    /\ query.lte # Undef => query.lte.valid

\* Task.find(query): equality on completed, $gte and $lte on date
Matches(doc, query) ==
    /\ query.completed # Undef => doc.completed = query.completed
    /\ query.gte # Undef => doc.date.time >= query.gte.time
    /\ query.lte # Undef => doc.date.time <= query.lte.time

\* a sort by {date: 1, createdAt: 1}
InOrder_oldestFirst(a, b) ==
    \/ a.date.time < b.date.time
    \/ a.date.time = b.date.time /\ a.createdAt <= b.createdAt

\* .sort({date: 1, createdAt: -1}): a may come right before b
InOrder(a, b) ==
    \/ a.date.time < b.date.time
    \/ a.date.time = b.date.time /\ a.createdAt >= b.createdAt

\* the orders the sort may return the found documents in: documents equal
\* in date and createdAt come in any order
Sorted(found) ==
    {s \in [1..Cardinality(found) -> found] :
        /\ \A d \in found : \E i \in DOMAIN s : s[i] = d
        /\ \A i \in DOMAIN s : i < Len(s) => InOrder(s[i], s[i + 1])}

\* getTasks: the lists it may return, or the Error it leaves with
GetTasks(store, filters, db) ==
    LET query == Query(filters) IN
    IF ~QueryCasts(query) \/ db = "down"
    THEN [ok |-> FALSE, error |-> "Failed to retrieve tasks from database"]
    ELSE [ok |-> TRUE, values |-> Sorted({d \in store : Matches(d, query)})]

(***************************************************************************)
(* agent/Agent.js                                                          *)
(***************************************************************************)
DefaultClassification == JObject([isTask |-> Bool(FALSE), confidence |-> Num(0)])

\* a classify whose catch returns null
Classify_nullOnFailure(reply) ==
    IF reply.kind = "error" \/ reply.content.j = "malformed"
    THEN JNull
    ELSE reply.content

\* classify: the parsed reply, whatever it is, or the default when the call
\* or JSON.parse throws
Classify(reply) ==
    IF reply.kind = "error" \/ reply.content.j = "malformed"
    THEN DefaultClassification
    ELSE reply.content

\* a branch on isTask !== false
Branch_unlessFalse(classification) ==
    IF classification.j = "null" THEN "throw"
    ELSE IF Field(classification, "isTask") # Bool(FALSE) THEN "task"
    ELSE "conversation"

\* process, lines 31-37: classification.isTask on null throws a TypeError
Branch(classification) ==
    IF classification.j = "null" THEN "throw"
    ELSE IF Truthy(Field(classification, "isTask")) THEN "task"
    ELSE "conversation"

\* the local calendar day an instant falls on: setHours(0, 0, 0, 0)
LocalDay(time, offset) == (time + offset) \div 24

\* formatDate
FormatDate(date, clock, offset) ==
    LET today == LocalDay(clock, offset)
        tomorrow == today + 1
        taskDate == LocalDay(NewDate(date).time, offset)
    IN  IF taskDate = today THEN [text |-> "today"]
        ELSE IF taskDate = tomorrow THEN [text |-> "tomorrow"]
        ELSE [text |-> "long", day |-> taskDate]

\* a response built from the draft, not from the document save() returned
TaskResponse_fromDraft(taskInfo, savedTask, advice, clock, offset) ==
    [message |-> [title |-> taskInfo.title,
                  formattedDate |-> FormatDate(taskInfo.date, clock, offset),
                  advice |-> advice],
     task |-> [id |-> savedTask.id,
               title |-> taskInfo.title,
               date |-> taskInfo.date,
               notes |-> taskInfo.notes,
               advice |-> taskInfo.advice],
     isTask |-> TRUE]

\* handleTask, lines 94-106
TaskResponse(taskInfo, savedTask, advice, clock, offset) ==
    [message |-> [title |-> savedTask.title,
                  formattedDate |-> FormatDate(savedTask.date, clock, offset),
                  advice |-> advice],
     task |-> [id |-> savedTask.id,
               title |-> savedTask.title,
               date |-> savedTask.date,
               notes |-> savedTask.notes,
               advice |-> savedTask.advice],
     isTask |-> TRUE]

\* handleConversation
HandleConversation(reply) ==
    IF reply.kind = "error"
    THEN [message |-> FallbackGreeting, isTask |-> FALSE]
    ELSE [message |-> reply.content, isTask |-> FALSE]

\* process, lines 38-44
ErrorResponse == [message |-> Apology, error |-> TRUE]

(***************************************************************************)
(* One chat request: agent.process, a step per awaited call.  calls is the *)
(* record of the calls the request has made and what each got back;        *)
(* inserted the ids of the documents it stored.                            *)
(***************************************************************************)
Fresh ==
    [pc |-> "classify", calls |-> <<>>, classification |-> Undef,
     taskInfo |-> Undef, advice |-> Undef, inserted |-> {}, response |-> Undef]

Tag(reply) ==
    IF reply.kind = "error" THEN "error"
    ELSE IF "j" \in DOMAIN reply.content THEN reply.content.j
    ELSE reply.content.t

Call(op, got, reply) == [op |-> op, got |-> got, reply |-> reply]

\* process, to the end of the await of classify and the branch taken on it
ClassifyStep(p, Replies) ==
    /\ inv[p].pc = "classify"
    /\ \E reply \in Replies :
         LET classification == Classify(reply)
             branch == Branch(classification)
             calls == Append(inv[p].calls, Call("classify", Tag(reply), reply))
         IN  inv' = [inv EXCEPT ![p] =
                 [@ EXCEPT !.calls = calls,
                           !.classification = classification,
                           !.pc = CASE branch = "task" -> "extract"
                                    [] branch = "conversation" -> "converse"
                                    [] OTHER -> "done",
                           !.response = IF branch = "throw" THEN ErrorResponse ELSE @]]
    /\ UNCHANGED <<tasks, nextId, now, tz, http>>

\* handleTask, to the end of the await of extractTaskInfo
ExtractStep(p, Replies) ==
    /\ inv[p].pc = "extract"
    /\ \E reply \in Replies :
         LET r == ExtractTaskInfo(reply)
             calls == Append(inv[p].calls, Call("extract", Tag(reply), reply))
         IN  inv' = [inv EXCEPT ![p] =
                 IF r.ok
                 THEN [@ EXCEPT !.calls = calls, !.taskInfo = r.value, !.pc = "advice"]
                 ELSE [@ EXCEPT !.calls = calls, !.response = ErrorResponse, !.pc = "done"]]
    /\ UNCHANGED <<tasks, nextId, now, tz, http>>

\* handleTask, to the end of the await of generateAdvice
AdviseStep(p, Replies) ==
    /\ inv[p].pc = "advice"
    /\ \E reply \in Replies :
         LET advice == GenerateAdvice(reply)
             info == inv[p].taskInfo
         IN  inv' = [inv EXCEPT ![p] =
                 [@ EXCEPT !.calls = Append(@, Call("advice", Tag(reply), reply)),
                           !.advice = advice,
                           !.taskInfo = [title |-> info.title, date |-> info.date,
                                         notes |-> info.notes, advice |-> advice],
                           !.pc = "save"]]
    /\ UNCHANGED <<tasks, nextId, now, tz, http>>

\* a draft kept on the exported agent instead of in the call: the request
\* saves the draft of the other request when that one is about to save too
SaveStep_sharedDraft(p, Dbs) ==
    /\ inv[p].pc = "save"
    /\ nextId <= MaxTasks
    /\ \E db \in Dbs :
         LET others == {q \in Procs \ {p} : inv[q].pc = "save"}
             draft == IF others = {} THEN inv[p].taskInfo
                      ELSE inv[CHOOSE q \in others : TRUE].taskInfo
             r == SaveTask(draft, nextId, now, db)
         IN
         IF r.ok
         THEN /\ tasks' = tasks \cup {r.value}
              /\ nextId' = nextId + 1
              /\ inv' = [inv EXCEPT ![p] =
                     [@ EXCEPT !.calls = Append(@, Call("insert", "saved", db)),
                               !.inserted = @ \cup {r.value.id},
                               !.response = TaskResponse(draft, r.value, inv[p].advice,
                                                        now, tz),
                               !.pc = "done"]]
         ELSE /\ inv' = [inv EXCEPT ![p] =
                     [@ EXCEPT !.calls = Append(@, Call("insert", "failed", db)),
                               !.response = ErrorResponse,
                               !.pc = "done"]]
              /\ UNCHANGED <<tasks, nextId>>
    /\ UNCHANGED <<now, tz, http>>

\* handleTask, from the call of saveTask to the response
SaveStep(p, Dbs) ==
    /\ inv[p].pc = "save"
    /\ nextId <= MaxTasks
    /\ \E db \in Dbs :
         LET r == SaveTask(inv[p].taskInfo, nextId, now, db) IN
         IF r.ok
         THEN /\ tasks' = tasks \cup {r.value}
              /\ nextId' = nextId + 1
              /\ inv' = [inv EXCEPT ![p] =
                     [@ EXCEPT !.calls = Append(@, Call("insert", "saved", db)),
                               !.inserted = @ \cup {r.value.id},
                               !.response = TaskResponse(inv[p].taskInfo, r.value, inv[p].advice,
                                                        now, tz),
                               !.pc = "done"]]
         ELSE /\ inv' = [inv EXCEPT ![p] =
                     [@ EXCEPT !.calls = Append(@, Call("insert", "failed", db)),
                               !.response = ErrorResponse,
                               !.pc = "done"]]
              /\ UNCHANGED <<tasks, nextId>>
    /\ UNCHANGED <<now, tz, http>>

\* handleConversation
ConverseStep(p, Replies) ==
    /\ inv[p].pc = "converse"
    /\ \E reply \in Replies :
         inv' = [inv EXCEPT ![p] =
             [@ EXCEPT !.calls = Append(@, Call("converse", Tag(reply), reply)),
                       !.response = HandleConversation(reply),
                       !.pc = "done"]]
    /\ UNCHANGED <<tasks, nextId, now, tz, http>>

\* the response is sent; the next message of this client arrives
Return(p) ==
    /\ inv[p].pc = "done"
    /\ inv' = [inv EXCEPT ![p] = Fresh]
    /\ UNCHANGED <<tasks, nextId, now, tz, http>>

(***************************************************************************)
(* routes/agent.js: the /tasks routes, called by one client that waits for *)
(* each response.  http keeps the response and, as asked, the request it   *)
(* answers.                                                                *)
(***************************************************************************)
AllowedUpdates == {"completed", "title", "date", "notes"}

Response(status, body, asked) == [status |-> status, body |-> body, asked |-> asked]

\* PATCH /tasks/:id
PatchTask(Ids, Bodies, Outcomes) ==
    /\ http = Undef
    /\ \E id \in Ids, updates \in Bodies, db \in Outcomes :
         LET asked == [route |-> "PATCH", id |-> id, body |-> updates, db |-> db,
                       found |-> \E d \in tasks : d.id = id]
         IN  IF ~(DOMAIN updates \subseteq AllowedUpdates)
             THEN /\ http' = Response(400, [error |-> "Invalid updates",
                                            allowedFields |-> AllowedUpdates], asked)
                  /\ UNCHANGED tasks
             ELSE LET r == UpdateTask(tasks, id, updates, db) IN
                  /\ tasks' = r.store
                  /\ http' = IF r.ok
                             THEN Response(200, [message |-> "Task updated successfully",
                                                 task |-> r.value], asked)
                             ELSE Response(500, [error |-> "Failed to update task"], asked)
    /\ UNCHANGED <<nextId, now, tz, inv>>

\* DELETE /tasks/:id
RemoveTask(Ids, Outcomes) ==
    /\ http = Undef
    /\ \E id \in Ids, db \in Outcomes :
         LET asked == [route |-> "DELETE", id |-> id, db |-> db,
                       found |-> \E d \in tasks : d.id = id]
             r == DeleteTask(tasks, id, db)
         IN  /\ tasks' = r.store
             /\ http' = IF r.ok
                        THEN Response(200, [message |-> "Task deleted successfully"], asked)
                        ELSE Response(500, [error |-> "Failed to delete task"], asked)
    /\ UNCHANGED <<nextId, now, tz, inv>>

\* the filters GET /tasks builds from the query string (lines 45-50)
Filters(params) ==
    [k \in {k \in DOMAIN params \cap {"completed", "dateFrom", "dateTo"} :
               k = "completed" \/ Truthy(params[k])} |->
        IF k = "completed" THEN Bool(params[k] = Str(0, "true")) ELSE params[k]]

\* GET /tasks
ListTasks(Params, Outcomes) ==
    /\ http = Undef
    /\ \E params \in Params, db \in Outcomes :
         LET asked == [route |-> "GET", query |-> params, filters |-> Filters(params),
                       db |-> db, store |-> tasks]
             r == GetTasks(tasks, Filters(params), db)
         IN  IF r.ok
             THEN \E found \in r.values :
                    http' = Response(200, [tasks |-> found, count |-> Len(found)], asked)
             ELSE http' = Response(500, [error |-> "Failed to retrieve tasks"], asked)
    /\ UNCHANGED <<tasks, nextId, now, tz, inv>>

\* the client of the /tasks routes has its response, and may ask again
Deliver ==
    /\ http # Undef
    /\ http' = Undef
    /\ UNCHANGED <<tasks, nextId, now, tz, inv>>

\* time passes
Tick(last) ==
    /\ now < last
    /\ now' = now + 1
    /\ UNCHANGED <<tasks, nextId, tz, inv, http>>

(***************************************************************************)
(* What the collaborators may answer.                                      *)
(***************************************************************************)
Day0 == 20454 + 12   \* 2026-01-13: 2026-01-01 is day 20454 of the epoch

ClassifyReplies ==
    {Throws, Content(Malformed), Content(JNull), Content(JNumber), Content(JArray),
     Content(JObject([confidence |-> Num(1)])),
     Content(JObject([isTask |-> Bool(TRUE), confidence |-> Num(1)])),
     Content(JObject([isTask |-> Bool(FALSE), confidence |-> Num(1)]))}

ExtractReplies ==
    {Throws, Content(Malformed), Content(JNull), Content(JNumber), Content(JArray)}
    \cup {Content(JObject([title |-> Str(1, "Study")])),
          Content(JObject([date |-> IsoDay(Day0), notes |-> Str(0, "wants tips")]))}
    \cup {Content(JObject([title |-> Str(1, "Study"), date |-> d, notes |-> n])) :
            d \in {IsoDay(Day0), Str(0, "soon")}, n \in {Str(0, "wants tips"), EmptyStr}}

AdviceReplies == {Throws, Content(Null), Content(Str(1, "1. Plan ahead"))}

ConverseReplies == {Throws, Content(Str(0, "Hi! How can I help?"))}

Dbs == {"up", "down"}

Init ==
    /\ tasks = {}
    /\ nextId = 1
    /\ now = Day0 * 24 + 12
    /\ tz = 0
    /\ inv = [p \in Procs |-> Fresh]
    /\ http = Undef

Next ==
    \E p \in Procs :
        \/ ClassifyStep(p, ClassifyReplies)
        \/ ExtractStep(p, ExtractReplies)
        \/ AdviseStep(p, AdviceReplies)
        \/ SaveStep(p, Dbs)
        \/ ConverseStep(p, ConverseReplies)
        \/ Return(p)

Spec == Init /\ [][Next]_vars

(***************************************************************************)
(* Reading a request's record.                                             *)
(***************************************************************************)
Done(p) == inv[p].pc = "done"
Ops(p) == [i \in DOMAIN inv[p].calls |-> inv[p].calls[i].op]
Made(p, op) == \E i \in DOMAIN inv[p].calls : inv[p].calls[i].op = op
Got(p, op, outcomes) ==
    \E i \in DOMAIN inv[p].calls :
        inv[p].calls[i].op = op /\ inv[p].calls[i].got \in outcomes
IsErrorVariant(r) == "error" \in DOMAIN r /\ r.error /\ "isTask" \notin DOMAIN r
IsTaskVariant(r) == "isTask" \in DOMAIN r /\ r.isTask /\ "task" \in DOMAIN r
IsChatVariant(r) == "isTask" \in DOMAIN r /\ ~r.isTask /\ "task" \notin DOMAIN r
Projection(d) ==
    [id |-> d.id, title |-> d.title, date |-> d.date, notes |-> d.notes,
     advice |-> d.advice]

(***************************************************************************)
(* C1: when extraction fails, by an error of the completion service or by  *)
(* a reply that is not a JSON object, process returns the error variant,   *)
(* saveTask is never called by that request and it stores nothing.         *)
(***************************************************************************)
C1_ExtractionFailureNeverInserts ==
    \A p \in Procs :
        Done(p) /\ Got(p, "extract", {"error", "malformed", "null", "number", "array"})
        => /\ IsErrorVariant(inv[p].response)
           /\ ~Made(p, "insert")
           /\ inv[p].inserted = {}

(***************************************************************************)
(* C2: a request whose classification result is non-task makes the         *)
(* classification call and then one conversational call, nothing else,     *)
(* stores nothing, and answers isTask: false.                              *)
(***************************************************************************)
NonTask(c) == c # Undef /\ c.j # "null" /\ ~Truthy(Field(c, "isTask"))

C2_NonTaskOnlyConverses ==
    \A p \in Procs :
        NonTask(inv[p].classification)
        => /\ Ops(p) \in {<<"classify">>, <<"classify", "converse">>}
           /\ inv[p].inserted = {}
           /\ Done(p) => /\ IsChatVariant(inv[p].response)
                         /\ Ops(p) = <<"classify", "converse">>

C2_Witness ==
    \E p \in Procs :
        /\ Done(p)
        /\ inv[p].classification =
               JObject([isTask |-> Bool(FALSE), confidence |-> Num(1)])
        /\ Ops(p) = <<"classify", "converse">>
        /\ IsChatVariant(inv[p].response)

(***************************************************************************)
(* C3: the step of a request that stores a document stores exactly one,    *)
(* and answers isTask: true with a task whose id, title, date, notes and   *)
(* advice are those of the stored document.                                *)
(***************************************************************************)
C3_ResponseMatchesStored ==
    [][\A p \in Procs :
         inv[p].pc = "save" /\ inv'[p].pc = "done" /\ Got(p, "insert", {"saved"})'
         => \E d \in tasks' \ tasks :
              /\ tasks' = tasks \cup {d}
              /\ inv'[p].inserted = {d.id}
              /\ IsTaskVariant(inv'[p].response)
              /\ inv'[p].response.task = Projection(d)]_vars

C3_Witness ==
    \E p \in Procs : \E d \in tasks :
        /\ Done(p) /\ IsTaskVariant(inv[p].response)
        /\ Got(p, "advice", {"string"})
        /\ inv[p].inserted = {d.id}
        /\ inv[p].taskInfo.title = Str(1, "Study")
        /\ d.title = Str(0, "Study")
        /\ inv[p].response.task = Projection(d)

(***************************************************************************)
(* C4: when the advice call fails, the request goes on to saveTask; if the *)
(* insert succeeds exactly one document is stored, the answer is           *)
(* isTask: true, and the stored and the returned advice are the fallback.  *)
(***************************************************************************)
C4_Fallback ==
    Str(0, "Good luck with your task! Break it down into smaller steps and tackle them one at a time.")

C4_AdviceFailureFallsBack ==
    /\ [](\A p \in Procs :
            Got(p, "advice", {"error"})
            => /\ inv[p].pc \in {"save", "done"}
               /\ Done(p) => Made(p, "insert"))
    /\ [][\A p \in Procs :
            Got(p, "advice", {"error"}) /\ inv[p].pc = "save"
            /\ inv'[p].pc = "done" /\ Got(p, "insert", {"saved"})'
            => \E d \in tasks' \ tasks :
                 /\ tasks' = tasks \cup {d}
                 /\ d.advice = C4_Fallback
                 /\ IsTaskVariant(inv'[p].response)
                 /\ inv'[p].response.task.advice = C4_Fallback
                 /\ inv'[p].response.task.id = d.id]_vars

C4_Witness ==
    \E p \in Procs : \E d \in tasks :
        /\ Done(p) /\ Got(p, "advice", {"error"}) /\ Got(p, "insert", {"saved"})
        /\ inv[p].inserted = {d.id}
        /\ d.advice = C4_Fallback
        /\ IsTaskVariant(inv[p].response)

(***************************************************************************)
(* C5: when the classification call fails or its reply does not parse,     *)
(* classify yields {isTask: false, confidence: 0} and process takes the    *)
(* conversation branch and answers isTask: false, never the error variant. *)
(***************************************************************************)
C5_ClassificationFailureConverses ==
    \A p \in Procs :
        Got(p, "classify", {"error", "malformed"})
        => /\ inv[p].classification =
                  JObject([isTask |-> Bool(FALSE), confidence |-> Num(0)])
           /\ inv[p].pc \in {"converse", "done"}
           /\ Done(p) => /\ Ops(p) = <<"classify", "converse">>
                         /\ IsChatVariant(inv[p].response)
                         /\ ~IsErrorVariant(inv[p].response)

C5_Witness ==
    \E p \in Procs :
        /\ Done(p) /\ Got(p, "classify", {"malformed"})
        /\ IsChatVariant(inv[p].response)

(***************************************************************************)
(* C6: process returns the error variant exactly when the extraction step  *)
(* or the insert failed; whatever classification, advice generation and    *)
(* conversation get back, the answer is isTask: true or isTask: false.     *)
(***************************************************************************)
C6_OnlyExtractionAndInsertEscape ==
    \A p \in Procs :
        Done(p)
        => (IsErrorVariant(inv[p].response)
            <=> \/ Ops(p) = <<"classify", "extract">>
                \/ Got(p, "insert", {"failed"}))

(***************************************************************************)
(* The store under one chat request at a time and the /tasks routes, with  *)
(* the titles and dates the schema has to judge.                           *)
(***************************************************************************)
TaskClassification == {Content(JObject([isTask |-> Bool(TRUE), confidence |-> Num(1)]))}

TitleReplies ==
    {Content(JObject([title |-> t, date |-> IsoDay(Day0)])) :
        t \in {Undef, Str(1, ""), Str(1, "Study"), Str(1, LongestTitle),
               Str(0, TooLongTitle)}}
    \cup {Content(JObject([title |-> Str(0, "Study"), date |-> d, notes |-> Str(0, "wants tips")])) :
            d \in {Undef, Str(0, "soon")}}

SomeAdvice == {Content(Str(1, "1. Plan ahead"))}

PatchBodies ==
    {[title |-> t] : t \in {Null, Str(1, ""), Str(1, LongestTitle), Str(0, TooLongTitle)}}
    \cup {[date |-> d] : d \in {Null, Str(0, "soon"), IsoDay(Day0 + 1)}}
    \cup {[completed |-> Bool(TRUE), notes |-> Str(0, "bring cash")],
          [title |-> Str(1, "Pay rent"), date |-> Str(0, "soon")],
          [advice |-> Str(0, "Just do it")],
          [completed |-> Str(0, "maybe")]}

NextStore ==
    \/ ClassifyStep("r1", TaskClassification)
    \/ ExtractStep("r1", TitleReplies)
    \/ AdviseStep("r1", SomeAdvice)
    \/ SaveStep("r1", Dbs)
    \/ Return("r1")
    \/ PatchTask(1..MaxTasks, PatchBodies, Dbs)
    \/ RemoveTask(1..MaxTasks, Dbs)
    \/ Deliver

SpecStore == Init /\ [][NextStore]_vars

(***************************************************************************)
(* C7: an update or a delete of an id that is not in the store is answered *)
(* differently from a failure of the store: not by the 500 'Failed to      *)
(* update task' / 'Failed to delete task'.                                 *)
(***************************************************************************)
C7_NotFoundIsDistinct ==
    /\ http # Undef
    /\ http.asked.route \in {"PATCH", "DELETE"}
    /\ ~http.asked.found
    /\ http.asked.db = "up"
    /\ http.asked.route = "PATCH" =>
          http.asked.body \in {[completed |-> Bool(TRUE), notes |-> Str(0, "bring cash")],
                               [date |-> IsoDay(Day0 + 1)]}
    => ~(/\ http.status = 500
         /\ http.body \in {[error |-> "Failed to update task"],
                           [error |-> "Failed to delete task"]})

(***************************************************************************)
(* C8: every stored task has a title that is a string of 1 to 200          *)
(* characters and a valid date; the task a chat request stores is not      *)
(* completed, and its notes and advice are strings, the notes empty when   *)
(* extraction gave none.                                                   *)
(***************************************************************************)
C8_StoredTasksAreValid ==
    /\ [](\A d \in tasks :
            /\ d.title.t = "string"
            /\ d.title.pad + Len(d.title.txt) >= 1
            /\ d.title.pad + Len(d.title.txt) <= 200
            /\ d.date.t = "date" /\ d.date.valid)
    /\ [][\A p \in Procs :
            inv[p].pc = "save" /\ inv'[p].pc = "done"
            => \A d \in tasks' \ tasks :
                 /\ d.completed = Bool(FALSE)
                 /\ d.notes.t = "string" /\ d.advice.t = "string"
                 /\ ~Truthy(inv[p].taskInfo.notes) => d.notes = Str(0, "")]_vars

C8_Witness ==
    /\ \E d \in tasks : d.title = Str(0, LongestTitle) /\ d.completed = Bool(TRUE)
    /\ http # Undef /\ http.status = 500 /\ http.asked.route = "PATCH" /\ http.asked.found
    /\ http.asked.db = "up" /\ http.asked.body = [title |-> Str(1, "")]

(***************************************************************************)
(* GET /tasks over tasks of several dates, made one chat request at a      *)
(* time, some of them completed since.                                     *)
(***************************************************************************)
DatedReplies ==
    {Content(JObject([title |-> Str(0, "Study"), date |-> IsoDay(Day0 + k)])) : k \in 0..2}

MarkCompleted == {[completed |-> Bool(TRUE)]}

ListParams ==
    {[k \in K |-> IF k = "completed" THEN c ELSE IsoDay(Day0 + 1)] :
        K \in SUBSET {"completed", "dateFrom", "dateTo"},
        c \in {Str(0, "true"), Str(0, "false")}}
    \cup {[dateFrom |-> EmptyStr], [dateTo |-> Str(0, "soon")]}

NextList ==
    \/ ClassifyStep("r1", TaskClassification)
    \/ ExtractStep("r1", DatedReplies)
    \/ AdviseStep("r1", SomeAdvice)
    \/ SaveStep("r1", {"up"})
    \/ Return("r1")
    \/ PatchTask(1..MaxTasks, MarkCompleted, {"up"})
    \/ ListTasks(ListParams, Dbs)
    \/ Deliver
    \/ Tick(Day0 * 24 + 13)

SpecList == Init /\ [][NextList]_vars

(***************************************************************************)
(* C10: GET /tasks with filters that are dates, the store up, returns each *)
(* stored task that meets every filter given (completed equal, date from   *)
(* dateFrom on, date up to dateTo, the bounds included) once, and no       *)
(* other; completed given as false is a filter like completed: true.       *)
(***************************************************************************)
C10_Wanted(d, filters) ==
    /\ "completed" \in DOMAIN filters => d.completed = filters.completed
    /\ "dateFrom" \in DOMAIN filters => d.date.time >= filters.dateFrom.day * 24
    /\ "dateTo" \in DOMAIN filters => d.date.time <= filters.dateTo.day * 24

C10_ListReturnsTheFiltered ==
    (/\ http # Undef
     /\ http.asked.route = "GET"
     /\ http.asked.db = "up"
     /\ \A k \in DOMAIN http.asked.filters \ {"completed"} :
            "day" \in DOMAIN http.asked.filters[k])
    => /\ http.status = 200
       /\ LET found == http.body.tasks
              wanted == {d \in http.asked.store : C10_Wanted(d, http.asked.filters)}
          IN  /\ {found[i] : i \in DOMAIN found} = wanted
              /\ Len(found) = Cardinality(wanted)
              /\ http.body.count = Cardinality(wanted)

C10_Witness ==
    /\ http # Undef /\ http.status = 200
    /\ http.asked.route = "GET"
    /\ http.asked.filters = [completed |-> Bool(FALSE), dateFrom |-> IsoDay(Day0 + 1),
                             dateTo |-> IsoDay(Day0 + 1)]
    /\ Len(http.body.tasks) = 1
    /\ Cardinality(http.asked.store) = MaxTasks
    /\ \E d \in http.asked.store : d.completed = Bool(TRUE)

(***************************************************************************)
(* formatDate in the confirmation of a task, under the time zones and the  *)
(* hours of the day the server may run at.                                 *)
(***************************************************************************)
TzOffsets == {-5, 0, 9}

InitDate ==
    /\ tasks = {}
    /\ nextId = 1
    /\ now \in {Day0 * 24 + h : h \in {0, 12, 23}}
    /\ tz \in TzOffsets
    /\ inv = [p \in Procs |-> Fresh]
    /\ http = Undef

NearReplies ==
    {Content(JObject([title |-> Str(0, "Study"), date |-> IsoDay(Day0 + k)])) : k \in -1..3}

NextDate ==
    \/ ClassifyStep("r1", TaskClassification)
    \/ ExtractStep("r1", NearReplies)
    \/ AdviseStep("r1", SomeAdvice)
    \/ SaveStep("r1", {"up"})
    \/ Return("r1")

SpecDate == InitDate /\ [][NextDate]_vars

(***************************************************************************)
(* C9: for a task extracted with the date YYYY-MM-DD of calendar day D,    *)
(* on the local calendar day T, the confirmation says "today" exactly when *)
(* D = T, "tomorrow" exactly when D = T + 1, and otherwise the long form   *)
(* of D; and the stored date is midnight UTC of D, as extracted.           *)
(***************************************************************************)
C9_LabelIsTheCalendarDay ==
    \A p \in Procs :
        Done(p) /\ IsTaskVariant(inv[p].response)
        => LET D == inv[p].calls[2].reply.content.fields.date.day
               T == (now + tz) \div 24
               label == inv[p].response.message.formattedDate
           IN  /\ label.text = "today" <=> D = T
               /\ label.text = "tomorrow" <=> D = T + 1
               /\ D \notin {T, T + 1} => label = [text |-> "long", day |-> D]
               /\ inv[p].response.task.date = [t |-> "date", valid |-> TRUE, time |-> D * 24]

(***************************************************************************)
(* C11: the list GET /tasks returns is in order of date ascending and,     *)
(* among tasks of one date, of creation time descending: of two adjacent   *)
(* tasks a, b either a.date < b.date, or a.date = b.date and               *)
(* a.createdAt >= b.createdAt.                                             *)
(***************************************************************************)
C11_ListIsOrdered ==
    (http # Undef /\ http.asked.route = "GET" /\ http.status = 200)
    => LET found == http.body.tasks IN
       \A i \in 1..(Len(found) - 1) :
           \/ found[i].date.time < found[i + 1].date.time
           \/ /\ found[i].date.time = found[i + 1].date.time
              /\ found[i].createdAt >= found[i + 1].createdAt

C11_Witness ==
    /\ http # Undef /\ http.asked.route = "GET" /\ http.status = 200
    /\ Len(http.body.tasks) = 2
    /\ http.body.tasks[1].date = http.body.tasks[2].date
    /\ http.body.tasks[1].createdAt > http.body.tasks[2].createdAt
    /\ http.body.tasks[1].id > http.body.tasks[2].id

(***************************************************************************)
(* C12: when the extraction reply is a JSON object whose date is no date,  *)
(* the request fails at the extraction step: it makes no advice call and   *)
(* never calls saveTask, and ends with the error variant and no task       *)
(* stored.                                                                 *)
(***************************************************************************)
C12_BadDate(reply) ==
    /\ reply.kind = "content"
    /\ reply.content.j = "object"
    /\ "date" \in DOMAIN reply.content.fields
    /\ reply.content.fields.date.t = "string"
    /\ "day" \notin DOMAIN reply.content.fields.date

C12_BadDateFailsAtExtraction ==
    \A p \in Procs :
        (\E i \in DOMAIN inv[p].calls :
            inv[p].calls[i].op = "extract" /\ C12_BadDate(inv[p].calls[i].reply))
        => /\ Done(p)
           /\ Ops(p) = <<"classify", "extract">>
           /\ IsErrorVariant(inv[p].response)
           /\ inv[p].inserted = {}

(***************************************************************************)
(* Chat requests in flight together, and with the /tasks routes: every     *)
(* await of process is a point where the other request, or a route         *)
(* handler, may run.  Both requests go through the one exported Agent.     *)
(***************************************************************************)
SomeClassifications == TaskClassification \cup {Throws, Content(JNull)}

TwoDrafts ==
    {Throws,
     Content(JObject([title |-> Str(1, "Study"), date |-> IsoDay(Day0)])),
     Content(JObject([title |-> Str(0, "Call mom"), date |-> IsoDay(Day0 + 1)]))}

SomeGreeting == {Content(Str(0, "Hi!"))}

NextConc ==
    \/ \E p \in Procs :
         \/ ClassifyStep(p, SomeClassifications)
         \/ ExtractStep(p, TwoDrafts)
         \/ AdviseStep(p, SomeAdvice)
         \/ SaveStep(p, Dbs)
         \/ ConverseStep(p, SomeGreeting)
         \/ Return(p)
    \/ PatchTask(1..MaxTasks, MarkCompleted, {"up"})
    \/ RemoveTask(1..MaxTasks, {"up"})
    \/ ListTasks({<<>>}, {"up"})
    \/ Deliver

SpecConc == Init /\ [][NextConc]_vars

(***************************************************************************)
(* C13: under every interleaving of chat requests with each other and with *)
(* the /tasks routes, a request inserts at most one task, and inserts one  *)
(* exactly when it returns isTask: true, with the id of that record in the *)
(* response; a request that returns isTask: false or the error variant     *)
(* leaves the store as it is; and what a request returns is decided by the *)
(* replies to its own calls, whatever the other request is doing.          *)
(***************************************************************************)
\* the response the replies to p's own calls decide
C13_OwnOutcome(p) ==
    LET calls == inv[p].calls
        branch == Branch(Classify(calls[1].reply))
    IN  IF branch = "throw" THEN ErrorResponse
        ELSE IF branch = "conversation" THEN HandleConversation(calls[2].reply)
        ELSE LET r == ExtractTaskInfo(calls[2].reply) IN
             IF ~r.ok \/ calls[4].got # "saved" THEN ErrorResponse
             ELSE LET advice == GenerateAdvice(calls[3].reply)
                      info == [title |-> r.value.title, date |-> r.value.date,
                               notes |-> r.value.notes, advice |-> advice]
                      id == CHOOSE i \in inv[p].inserted : TRUE
                  IN  TaskResponse(info, NewTask(info, id, now), advice, now, tz)

C13_Outcomes ==
    \A p \in Procs :
        /\ Cardinality(inv[p].inserted) <= 1
        /\ \A q \in Procs \ {p} : inv[p].inserted \cap inv[q].inserted = {}
        /\ Done(p) =>
             /\ IsTaskVariant(inv[p].response) <=> inv[p].inserted # {}
             /\ IsTaskVariant(inv[p].response) => inv[p].response.task.id \in inv[p].inserted
             /\ inv[p].response = C13_OwnOutcome(p)

\* a step of request p: the other request is where it was, and the store
\* changes only by the one record p inserts
C13_Steps ==
    \A p \in Procs :
        (inv'[p] # inv[p] /\ inv[p].pc # "done")
        => /\ \A q \in Procs \ {p} : inv'[q] = inv[q]
           /\ IF IsTaskVariant(inv'[p].response)
              THEN \E d \in tasks' :
                     /\ \A e \in tasks : e.id # d.id
                     /\ tasks' = tasks \cup {d}
                     /\ inv'[p].inserted = {d.id}
                     /\ inv'[p].response.task.id = d.id
              ELSE tasks' = tasks /\ inv'[p].inserted = {}

C13_ConcurrentRequestsAreIsolated == [](C13_Outcomes) /\ [][C13_Steps]_vars

\* both requests have returned a task, each its own, the later request to
\* start saving first, and a route has changed the store meanwhile
C13_Witness ==
    /\ Done("r1") /\ Done("r2")
    /\ IsTaskVariant(inv["r1"].response) /\ IsTaskVariant(inv["r2"].response)
    /\ inv["r1"].response.task.id = 2
    /\ inv["r2"].response.task.id = 1
    /\ inv["r1"].response.task.title # inv["r2"].response.task.title
    /\ \E d \in tasks : d.id = 2 /\ d.completed = Bool(TRUE)
    /\ \A d \in tasks : d.id # 1
====
